---- MODULE Spec2Model ----
(***************************************************************************)
(* A model of src/main.py: the US economic-indicator briefing bot.         *)
(*                                                                         *)
(* Instants are whole minutes counted from a Monday 00:00 UTC.  A civil    *)
(* time is an instant shifted by a zone offset; weekday, hour and minute   *)
(* are read off the civil minute count as datetime does.                   *)
(* Python strings are tuples of one-character strings, so that float() and *)
(* strptime() can be modelled by what they do to the characters.  Python's *)
(* None, where a string is expected, is the tuple <<"None">>, which is no  *)
(* character string.  An optional number is a record [some, val].          *)
(***************************************************************************)
EXTENDS Integers, Sequences, FiniteSets, TLC

VARIABLES
    now,               \* the wall clock: the current instant (UTC minutes)
    tz,                \* offset of the process's local zone, minutes east of UTC
    env,               \* which of FRED_API_KEY, BOT_TOKEN, CHAT_ID are set
    jobs,              \* schedule's jobs: job -> next_run (local civil minute)
    pc,                \* position of the single thread
    caller,            \* who called send_economic_briefing: "test" or "job"
    runnable,          \* run_pending's sorted list of due jobs still to run
    k,                 \* get_latest_indicators: index of the series fetched next
    indicators_data,   \* the mapping under construction, in insertion order
    briefing_message,  \* the rendered briefing (a sequence of lines)
    outcome,           \* how the current send_economic_briefing call ended
    requests,          \* the HTTP requests the current call has issued
    startup,           \* "none" or "sent": send_startup_message's POST
    test,              \* the startup test call: "none", "skipped" or "ran"
    lastFire,          \* instant of the last pass of the gate, -1 if none
    fireCount,         \* passes of the gate within the minute lastFire
    failedAt,          \* instant of the last failed delivery POST, -1 if none
    should,            \* the last value returned by should_send_briefing
    current,           \* calculate_change's first argument
    previous,          \* calculate_change's second argument
    change,            \* calculate_change's result
    change_str         \* format_change's result

vars == <<now, tz, env, jobs, pc, caller, runnable, k, indicators_data,
          briefing_message, outcome, requests, startup, test, lastFire,
          fireCount, failedAt, should, current, previous, change, change_str>>

----------------------------------------------------------------------------
(* Python values *)

None == <<"None">>

NoNumber == [some |-> FALSE, val |-> 0]

Number(n) == [some |-> TRUE, val |-> n]

\* Truth value of an optional string: None and "" are falsy.
Truthy(s) == s # None /\ s # <<>>

MissingToken == <<".">>

----------------------------------------------------------------------------
(* Clock and gate *)

\* KST = timezone(timedelta(hours=9)), in minutes
KSTOffset == 540

\* datetime.now(KST): the civil minute count of an instant in UTC+9
get_korean_time(t) == t + KSTOffset

\* datetime.weekday(): 0 is Monday
Weekday(civil) == (civil \div 1440) % 7

Hour(civil) == (civil % 1440) \div 60

Minute(civil) == civil % 60

\* A slip of the weekday test: Saturday counted as a business day.
is_business_day_with_saturday(t) == Weekday(get_korean_time(t)) <= 5

is_business_day(t) == Weekday(get_korean_time(t)) < 5

should_send_briefing(t) ==
    IF ~is_business_day(t)
    THEN FALSE
    ELSE LET korean_time == get_korean_time(t)
             hour == Hour(korean_time)
             minute == Minute(korean_time)
         IN  IF hour = 7 /\ minute = 30 THEN TRUE ELSE FALSE

----------------------------------------------------------------------------
(* float() and the change calculator *)

Digits == <<"0", "1", "2", "3", "4", "5", "6", "7", "8", "9">>

IsDigit(c) == \E d \in 1..10 : Digits[d] = c

DigitVal(c) == (CHOOSE d \in 1..10 : Digits[d] = c) - 1

AllDigits(s) == \A j \in 1..Len(s) : IsDigit(s[j])

RECURSIVE NatOf(_)
NatOf(s) == IF s = <<>> THEN 0
            ELSE 10 * NatOf(SubSeq(s, 1, Len(s) - 1)) + DigitVal(s[Len(s)])

\* Position of the first occurrence of character c in s, 0 if none.
IndexOf(s, c) == IF \E j \in 1..Len(s) : s[j] = c
                 THEN CHOOSE j \in 1..Len(s) : s[j] = c /\ \A i \in 1..(j - 1) : s[i] # c
                 ELSE 0

Unsigned(s) == IF s # <<>> /\ s[1] \in {"+", "-"} THEN Tail(s) ELSE s

IntPart(s) == LET u == Unsigned(s)
                  p == IndexOf(u, ".")
              IN  IF p = 0 THEN u ELSE SubSeq(u, 1, p - 1)

FracPart(s) == LET u == Unsigned(s)
                   p == IndexOf(u, ".")
               IN  IF p = 0 THEN <<>> ELSE SubSeq(u, p + 1, Len(u))

\* float(s) succeeds: an optional sign, digits with at most one point, at
\* least one digit.
IsFloat(s) ==
    /\ s # None
    /\ AllDigits(IntPart(s))
    /\ AllDigits(FracPart(s))
    /\ Len(IntPart(s)) + Len(FracPart(s)) >= 1

\* float(s), in hundredths (the inputs drawn below have two decimals at most)
FloatOf(s) ==
    LET f == FracPart(s)
        frac == IF Len(f) = 0 THEN 0
                ELSE IF Len(f) = 1 THEN 10 * NatOf(f) ELSE NatOf(SubSeq(f, 1, 2))
        mag == 100 * NatOf(IntPart(s)) + frac
    IN  IF s[1] = "-" THEN 0 - mag ELSE mag

\* A slip of the subtraction: the operands swapped.
calculate_change_swapped(cur, prev) ==
    IF ~Truthy(cur) \/ ~Truthy(prev) \/ cur = MissingToken \/ prev = MissingToken
    THEN NoNumber
    ELSE IF IsFloat(cur) /\ IsFloat(prev)
         THEN Number(FloatOf(prev) - FloatOf(cur))
         ELSE NoNumber

calculate_change(cur, prev) ==
    IF ~Truthy(cur) \/ ~Truthy(prev) \/ cur = MissingToken \/ prev = MissingToken
    THEN NoNumber
    ELSE IF IsFloat(cur) /\ IsFloat(prev)
         THEN Number(FloatOf(cur) - FloatOf(prev))
         ELSE NoNumber

RECURSIVE NatStr(_)
NatStr(n) == IF n < 10 THEN <<Digits[n + 1]>>
             ELSE Append(NatStr(n \div 10), Digits[(n % 10) + 1])

\* f"{x:.2f}" of a value in hundredths
Fmt2f(h) ==
    LET a == IF h < 0 THEN 0 - h ELSE h
        body == NatStr(a \div 100) \o <<".", Digits[((a % 100) \div 10) + 1],
                                        Digits[(a % 10) + 1]>>
    IN  IF h < 0 THEN <<"-">> \o body ELSE body

\* The marker is the emoji of the source, named: bar_chart, chart_up,
\* chart_down, arrow_right.
format_change(ch) ==
    IF ~ch.some THEN [marker |-> "bar_chart", text |-> <<"N", "/", "A">>]
    ELSE IF ch.val > 0 THEN [marker |-> "chart_up", text |-> <<"+">> \o Fmt2f(ch.val)]
    ELSE IF ch.val < 0 THEN [marker |-> "chart_down", text |-> Fmt2f(ch.val)]
    ELSE [marker |-> "arrow_right", text |-> Fmt2f(ch.val)]

----------------------------------------------------------------------------
(* The static indicator definitions *)

Series == <<"UNRATE", "CPIAUCSL", "PAYEMS", "GDPC1", "RRSFS">>

\* name and unit stand for the Korean display strings of the source.
ECONOMIC_INDICATORS ==
    [s \in {Series[j] : j \in 1..Len(Series)} |->
        CASE s = "UNRATE"   -> [name |-> "unemployment rate", unit |-> "%", importance |-> "critical"]
          [] s = "CPIAUCSL" -> [name |-> "CPI", unit |-> "%", importance |-> "critical"]
          [] s = "PAYEMS"   -> [name |-> "nonfarm payrolls", unit |-> "thousand", importance |-> "critical"]
          [] s = "GDPC1"    -> [name |-> "GDP", unit |-> "%", importance |-> "important"]
          [] s = "RRSFS"    -> [name |-> "retail sales", unit |-> "%", importance |-> "important"]]

----------------------------------------------------------------------------
(* strptime(latest_date, '%Y-%m-%d').strftime('%m/%d') *)

IsLeap(y) == (y % 4 = 0 /\ y % 100 # 0) \/ y % 400 = 0

DaysInMonth(y, m) == IF m = 2 THEN (IF IsLeap(y) THEN 29 ELSE 28)
                     ELSE IF m \in {4, 6, 9, 11} THEN 30 ELSE 31

\* The three fields of a string split at its first two '-'.
DateFields(s) ==
    LET p == IndexOf(s, "-")
        rest == IF p = 0 THEN <<>> ELSE SubSeq(s, p + 1, Len(s))
        q == IndexOf(rest, "-")
    IN  [ok |-> p # 0 /\ q # 0,
         y |-> IF p = 0 THEN s ELSE SubSeq(s, 1, p - 1),
         m |-> IF q = 0 THEN rest ELSE SubSeq(rest, 1, q - 1),
         d |-> IF q = 0 THEN <<>> ELSE SubSeq(rest, q + 1, Len(rest))]

\* strptime accepts: %Y four digits, %m and %d one or two digits in range,
\* nothing left over, and a date that exists.
DateParses(s) ==
    /\ s # None
    /\ LET f == DateFields(s)
       IN  /\ f.ok
           /\ AllDigits(f.y) /\ Len(f.y) = 4 /\ NatOf(f.y) >= 1
           /\ AllDigits(f.m) /\ Len(f.m) \in {1, 2} /\ NatOf(f.m) \in 1..12
           /\ AllDigits(f.d) /\ Len(f.d) \in {1, 2} /\ NatOf(f.d) >= 1
           /\ NatOf(f.d) <= DaysInMonth(NatOf(f.y), NatOf(f.m))

Pad2(n) == <<Digits[(n \div 10) + 1], Digits[(n % 10) + 1]>>

\* strftime('%m/%d') of the parsed date
FormatMonthDay(s) ==
    LET f == DateFields(s) IN Pad2(NatOf(f.m)) \o <<"/">> \o Pad2(NatOf(f.d))

----------------------------------------------------------------------------
(* The briefing formatter *)

\* One line of the message.  date is the " (mm/dd)" suffix, <<>> if none.
Line(kind, name, value, unit, chg, date) ==
    [kind |-> kind, name |-> name, value |-> value, unit |-> unit,
     change |-> chg, date |-> date]

StaticLine(kind, value) ==
    Line(kind, "", value, "", [marker |-> "", text |-> <<>>], <<>>)

IsCritical(e) == e.data.info.importance = "critical"

IsImportant(e) == e.data.info.importance = "important"

\* A slip of the test of line 172: the missing-value token not excluded.
IsRendered_any_value(e) == Truthy(e.data.latest_value)

\* if current and current != '.'
IsRendered(e) == Truthy(e.data.latest_value) /\ e.data.latest_value # MissingToken

\* A slip of the date suffix: the date appended as received.
DateSuffix_raw(latest_date) ==
    IF Truthy(latest_date) THEN latest_date ELSE <<>>

DateSuffix(latest_date) ==
    IF Truthy(latest_date) /\ DateParses(latest_date)
    THEN FormatMonthDay(latest_date)
    ELSE <<>>

CriticalLine(e) ==
    Line("critical", e.data.info.name, e.data.latest_value, e.data.info.unit,
         format_change(calculate_change(e.data.latest_value, e.data.previous_value)),
         DateSuffix(e.data.latest_date))

ImportantLine(e) ==
    Line("important", e.data.info.name, e.data.latest_value, e.data.info.unit,
         format_change(calculate_change(e.data.latest_value, e.data.previous_value)),
         <<>>)

format_economic_briefing(data, t) ==
    LET korean_time == get_korean_time(t)
        critical_indicators == SelectSeq(data, IsCritical)
        important_indicators == SelectSeq(data, IsImportant)
        crit == SelectSeq(critical_indicators, IsRendered)
        imp == SelectSeq(important_indicators, IsRendered)
    IN  <<StaticLine("title", <<>>),
          StaticLine("sent_date", <<korean_time \div 1440>>),
          StaticLine("critical_header", <<>>)>>
        \o [j \in 1..Len(crit) |-> CriticalLine(crit[j])]
        \o (IF important_indicators # <<>>
            THEN <<StaticLine("important_header", <<>>)>>
                 \o [j \in 1..Len(imp) |-> ImportantLine(imp[j])]
            ELSE <<>>)
        \o <<StaticLine("summary", <<>>),
              StaticLine("sent_time", Pad2(Hour(korean_time)) \o <<":">> \o Pad2(Minute(korean_time))),
              StaticLine("next_briefing", <<>>)>>

----------------------------------------------------------------------------
(* The indicator fetcher *)

\* What requests.get can do: a 200 with a body, another status, or raise
\* (a network failure or the 30 s timeout).
Observation(value, date) == [value |-> value, date |-> date]

OkResponse(observations) == [kind |-> "ok", observations |-> observations]

ErrorResponse == [kind |-> "http_error", observations |-> <<>>]

ExceptionResponse == [kind |-> "exception", observations |-> <<>>]

get_fred_data(response) ==
    IF response.kind = "ok" THEN response.observations ELSE <<>>

\* The entry get_latest_indicators stores for a series with observations.
Snapshot(series_id, observations) ==
    LET latest == observations[1]
        has_previous == Len(observations) > 1
    IN  [series_id |-> series_id,
         data |-> [info |-> ECONOMIC_INDICATORS[series_id],
                   latest_value |-> latest.value,
                   latest_date |-> latest.date,
                   previous_value |-> IF has_previous THEN observations[2].value ELSE None,
                   previous_date |-> IF has_previous THEN observations[2].date ELSE None]]

\* A slip of the loop: a failed series discards what was collected.
StoreSeries_failure_discards(data, series_id, response) ==
    LET observations == get_fred_data(response)
    IN  IF observations # <<>>
        THEN Append(data, Snapshot(series_id, observations))
        ELSE <<>>

\* One iteration of get_latest_indicators' loop: the mapping after the
\* series' response.
StoreSeries(data, series_id, response) ==
    LET observations == get_fred_data(response)
    IN  IF observations # <<>>
        THEN Append(data, Snapshot(series_id, observations))
        ELSE data

RECURSIVE FetchAll(_, _, _)
\* get_latest_indicators, given the response to each series' GET
FetchAll(responses, j, data) ==
    IF j > Len(Series) THEN data
    ELSE FetchAll(responses, j + 1, StoreSeries(data, Series[j], responses[j]))

get_latest_indicators(responses) == FetchAll(responses, 1, <<>>)

----------------------------------------------------------------------------
(* The schedule library's jobs, as registered by the module *)

\* The instant of a UTC+9 civil time: day 0 is the Monday of the epoch.
KstInstant(day, hour, minute) == day * 1440 + hour * 60 + minute - KSTOffset

\* datetime.now() without a zone, which schedule reads: local civil time
LocalTime(t, offset) == t + offset

\* schedule.every().day.at("07:30"): the next 07:30 of the local day that
\* is still ahead of the local time `local`
DailyNextRun(local) ==
    LET at_time == 7 * 60 + 30
        today == (local \div 1440) * 1440
    IN  IF at_time > local % 1440 THEN today + at_time ELSE today + 1440 + at_time

\* schedule.every().hour.at(":00"): the next full hour after `local`
HourlyNextRun(local) == ((local \div 60) + 1) * 60

JobNames == <<"daily", "hourly">>

NextRun(job, local) ==
    IF job = "daily" THEN DailyNextRun(local) ELSE HourlyNextRun(local)

\* Job.should_run: datetime.now() >= next_run
ShouldRun(next_run, local) == local >= next_run

\* run_pending: the due jobs, sorted by next_run (registration order on ties)
RunnableJobs(js, local) ==
    LET due == SelectSeq(JobNames, LAMBDA j : ShouldRun(js[j], local))
    IN  IF Len(due) = 2 /\ js[due[2]] < js[due[1]] THEN <<due[2], due[1]>> ELSE due

----------------------------------------------------------------------------
(* The inputs of a run *)

\* The horizon of a run: Saturday 07:33 UTC+9, as an instant.
MaxNow == 7113

\* Process starts: Thursday 07:29, 07:30 and 12:00 UTC+9.
StartInstants == {KstInstant(3, 7, 29), KstInstant(3, 7, 30), KstInstant(3, 12, 0)}

\* The host's zone: UTC+9 or UTC.
LocalOffsets == {KSTOffset, 0}

SecretNames == {"FRED_API_KEY", "BOT_TOKEN", "CHAT_ID"}

\* Minute boundaries an HTTP call can cross (its timeout is 30 s).
Latency == {0, 1}

\* time.sleep(60), in minutes; the loop's own work between two sleeps is
\* taken to cross no minute boundary.
SleepMinutes == 1

\* The provider's answers to a series' GET in a run of the process.
Responses ==
    {ErrorResponse, ExceptionResponse, OkResponse(<<>>),
     OkResponse(<<Observation(<<"4", ".", "3">>, <<"2", "0", "2", "4", "-", "0", "8", "-", "0", "1">>)>>),
     OkResponse(<<Observation(MissingToken, <<"2", "0", "2", "4", "-", "0", "8", "-", "0", "1">>),
                  Observation(<<"3", ".", "2">>, <<"2", "0", "2", "4", "-", "0", "7", "-", "0", "1">>)>>)}

\* requests.post's outcomes
PostResults == {"ok", "http_error", "exception"}

GetRequest(series_id, response) ==
    [method |-> "GET", series |-> series_id,
     result |-> IF response.kind = "ok" THEN "ok" ELSE "failed",
     count |-> Len(response.observations), text |-> <<>>]

PostRequest(message, result) ==
    [method |-> "POST", series |-> "", result |-> IF result = "ok" THEN "ok" ELSE "failed",
     count |-> 0, text |-> message]

\* A slip of the test of line 305: any secret instead of all.
AnySecret == env["FRED_API_KEY"] \/ env["BOT_TOKEN"] \/ env["CHAT_ID"]

AllSecrets == env["FRED_API_KEY"] /\ env["BOT_TOKEN"] /\ env["CHAT_ID"]

----------------------------------------------------------------------------
(* The process *)

NoChange == [marker |-> "", text |-> <<>>]

PureIdle ==
    /\ should = FALSE
    /\ current = None /\ previous = None
    /\ change = NoNumber /\ change_str = NoChange

\* The state after the module has registered its two jobs and printed its
\* banner (lines 289-302).
Init ==
    /\ now \in StartInstants
    /\ tz \in LocalOffsets
    /\ env \in [SecretNames -> BOOLEAN]
    /\ jobs = [j \in {"daily", "hourly"} |-> NextRun(j, LocalTime(now, tz))]
    /\ pc = "startup"
    /\ caller = "none"
    /\ runnable = <<>>
    /\ k = 1
    /\ indicators_data = <<>>
    /\ briefing_message = <<>>
    /\ outcome = "none"
    /\ requests = <<>>
    /\ startup = "none"
    /\ test = "none"
    /\ lastFire = -1
    /\ fireCount = 0
    /\ failedAt = -1
    /\ PureIdle

pureVars == <<should, current, previous, change, change_str>>

histVars == <<startup, test, lastFire, fireCount, failedAt>>

callVars == <<k, indicators_data, briefing_message, outcome, requests>>

\* if FRED_API_KEY and BOT_TOKEN and CHAT_ID: send_startup_message(), then
\* the call of send_economic_briefing of line 310
StartupMessage ==
    /\ pc = "startup"
    /\ AllSecrets
    /\ \E result \in PostResults, d \in Latency :
          /\ now + d <= MaxNow
          /\ now' = now + d
    /\ startup' = "sent"
    /\ pc' = "briefing"
    /\ caller' = "test"
    /\ UNCHANGED <<tz, env, jobs, runnable, callVars, test, lastFire, fireCount,
                   failedAt, should, current, previous, change, change_str>>

\* else: the warning of line 312, and on to the loop
SkipStartup ==
    /\ pc = "startup"
    /\ ~AllSecrets
    /\ pc' = "run_pending"
    /\ UNCHANGED <<now, tz, env, jobs, caller, runnable, callVars, histVars,
                   should, current, previous, change, change_str>>

\* send_economic_briefing, lines 239-246: the gate
EnterBriefing ==
    /\ pc = "briefing"
    /\ should' = should_send_briefing(now)
    /\ IF should'
       THEN /\ pc' = "fetch"
            /\ outcome' = "running"
            /\ lastFire' = now
            /\ fireCount' = IF lastFire = now THEN fireCount + 1 ELSE 1
            /\ test' = IF caller = "test" THEN "ran" ELSE test
       ELSE /\ pc' = "return"
            /\ outcome' = "not_time"
            /\ test' = IF caller = "test" THEN "skipped" ELSE test
            /\ UNCHANGED <<lastFire, fireCount>>
    /\ UNCHANGED <<now, tz, env, jobs, caller, runnable, k, indicators_data,
                   briefing_message, requests, startup, failedAt,
                   current, previous, change, change_str>>

\* A slip of line 251: the empty mapping not checked.
AfterFetch_unchecked(data) == "format"

\* if not indicators_data: return
AfterFetch(data) == IF data = <<>> THEN "return" ELSE "format"

\* get_latest_indicators: one iteration of its loop, and after the last
\* one the check of line 251
FetchSeries ==
    /\ pc = "fetch"
    /\ \E response \in Responses, d \in Latency :
          /\ now + d <= MaxNow
          /\ now' = now + d
          /\ requests' = Append(requests, GetRequest(Series[k], response))
          /\ indicators_data' = StoreSeries(indicators_data, Series[k], response)
    /\ k' = k + 1
    /\ IF k < Len(Series)
       THEN pc' = "fetch" /\ UNCHANGED outcome
       ELSE /\ pc' = AfterFetch(indicators_data')
            /\ outcome' = IF pc' = "return" THEN "no_data" ELSE outcome
    /\ UNCHANGED <<tz, env, jobs, caller, runnable, briefing_message, histVars, pureVars>>

\* briefing_message = format_economic_briefing(indicators_data)
FormatBriefing ==
    /\ pc = "format"
    /\ briefing_message' = format_economic_briefing(indicators_data, now)
    /\ pc' = "deliver"
    /\ UNCHANGED <<now, tz, env, jobs, caller, runnable, k, indicators_data, outcome,
                   requests, histVars, pureVars>>

\* success = send_telegram_message(briefing_message)
SendTelegram ==
    /\ pc = "deliver"
    /\ \E result \in PostResults, d \in Latency :
          /\ now + d <= MaxNow
          /\ now' = now + d
          /\ requests' = Append(requests, PostRequest(briefing_message, result))
          /\ outcome' = IF result = "ok" THEN "sent" ELSE "send_failed"
          /\ failedAt' = IF result = "ok" THEN failedAt ELSE lastFire
    /\ pc' = "return"
    /\ UNCHANGED <<tz, env, jobs, caller, runnable, k, indicators_data, briefing_message,
                   startup, test, lastFire, fireCount, pureVars>>

\* send_economic_briefing returns: to the module (line 310), or to
\* schedule's Job.run, which sets the job's next run and goes on with the
\* remaining due jobs
Return ==
    /\ pc = "return"
    /\ k' = 1
    /\ indicators_data' = <<>>
    /\ briefing_message' = <<>>
    /\ outcome' = "none"
    /\ requests' = <<>>
    /\ IF caller = "test"
       THEN /\ pc' = "run_pending"
            /\ UNCHANGED <<jobs, runnable>>
       ELSE /\ jobs' = [jobs EXCEPT ![Head(runnable)] = NextRun(Head(runnable), LocalTime(now, tz))]
            /\ runnable' = Tail(runnable)
            /\ pc' = IF Tail(runnable) = <<>> THEN "sleep" ELSE "briefing"
    /\ caller' = IF caller = "test" THEN "none" ELSE caller
    /\ UNCHANGED <<now, tz, env, histVars, pureVars>>

\* schedule.run_pending()
RunPending ==
    /\ pc = "run_pending"
    /\ runnable' = RunnableJobs(jobs, LocalTime(now, tz))
    /\ pc' = IF runnable' = <<>> THEN "sleep" ELSE "briefing"
    /\ caller' = IF runnable' = <<>> THEN "none" ELSE "job"
    /\ UNCHANGED <<now, tz, env, jobs, callVars, histVars, pureVars>>

\* time.sleep(60)
Sleep ==
    /\ pc = "sleep"
    /\ now + SleepMinutes <= MaxNow
    /\ now' = now + SleepMinutes
    /\ pc' = "run_pending"
    /\ UNCHANGED <<tz, env, jobs, caller, runnable, callVars, histVars, pureVars>>

Next ==
    \/ StartupMessage
    \/ SkipStartup
    \/ EnterBriefing
    \/ FetchSeries
    \/ FormatBriefing
    \/ SendTelegram
    \/ Return
    \/ RunPending
    \/ Sleep

Spec == Init /\ [][Next]_vars

----------------------------------------------------------------------------
(* The pure functions on their own: each specification draws the inputs in *)
(* its initial states and applies the function once.                       *)

\* The process variables of a state in which only a function is applied.
Detached ==
    /\ tz = KSTOffset
    /\ env = [s \in SecretNames |-> TRUE]
    /\ jobs = [j \in {"daily", "hourly"} |-> 0]
    /\ caller = "none"
    /\ runnable = <<>>
    /\ k = 1
    /\ outcome = "none"
    /\ requests = <<>>
    /\ startup = "none"
    /\ test = "none"
    /\ lastFire = -1
    /\ fireCount = 0
    /\ failedAt = -1

\* The gate is evaluated at every instant of two weeks and a day.
MaxInstant == 21600

InitGate ==
    /\ now \in 0..MaxInstant
    /\ pc = "gate_in"
    /\ indicators_data = <<>>
    /\ briefing_message = <<>>
    /\ Detached
    /\ PureIdle

EvalGate ==
    /\ pc = "gate_in"
    /\ should' = should_send_briefing(now)
    /\ pc' = "gate_out"
    /\ UNCHANGED <<now, tz, env, jobs, caller, runnable, callVars, histVars,
                   current, previous, change, change_str>>

SpecGate == InitGate /\ [][EvalGate]_vars

\* Observation values: absent, empty, the missing-value token, numbers
\* (signed, with and without decimals), and text that is no number.
Values ==
    {None, <<>>, MissingToken,
     <<"4", ".", "3">>, <<"4", ".", "1">>, <<"4", ".", "3", "0">>, <<"0">>,
     <<"-", "1", ".", "5">>, <<"1", "5", "9", "0", "0", "0">>,
     <<"a", "b", "c">>, <<"4", ".", "3", "%">>, <<"4", ".", "3", ".", "1">>}

InitCalc ==
    /\ current \in Values
    /\ previous \in Values
    /\ change = NoNumber
    /\ change_str = NoChange
    /\ should = FALSE
    /\ now = 0
    /\ pc = "calc_in"
    /\ indicators_data = <<>>
    /\ briefing_message = <<>>
    /\ Detached

\* change = calculate_change(current, previous); format_change(change)
EvalChange ==
    /\ pc = "calc_in"
    /\ change' = calculate_change(current, previous)
    /\ change_str' = format_change(change')
    /\ pc' = "calc_out"
    /\ UNCHANGED <<now, tz, env, jobs, caller, runnable, callVars, histVars,
                   should, current, previous>>

SpecCalc == InitCalc /\ [][EvalChange]_vars

GoodDate == <<"2", "0", "2", "4", "-", "0", "8", "-", "0", "1">>

ShortDate == <<"2", "0", "2", "4", "-", "1", "1", "-", "5">>

\* February 30th: the fields parse, the date does not exist.
NoSuchDate == <<"2", "0", "2", "4", "-", "0", "2", "-", "3", "0">>

NotADate == <<"0", "8", "/", "0", "1", "/", "2", "0", "2", "4">>

\* The observation lists a series' GET is answered with, before rendering.
ObservationLists ==
    {<<Observation(<<"4", ".", "3">>, GoodDate), Observation(<<"4", ".", "1">>, GoodDate)>>,
     <<Observation(<<"4", ".", "1">>, ShortDate)>>,
     <<Observation(MissingToken, GoodDate), Observation(<<"3", ".", "2">>, GoodDate)>>,
     <<Observation(<<"4", ".", "3">>, NoSuchDate), Observation(<<"4", ".", "3">>, GoodDate)>>,
     <<Observation(<<"2", ".", "5">>, NotADate), Observation(MissingToken, GoodDate)>>,
     <<Observation(<<"3", ".", "2">>, None), Observation(<<"4", ".", "1">>, None)>>}

\* The mappings get_latest_indicators hands to the formatter: not empty.
InitFormat ==
    /\ \E responses \in [1..Len(Series) -> {ErrorResponse} \cup {OkResponse(o) : o \in ObservationLists}] :
          /\ indicators_data = get_latest_indicators(responses)
          /\ indicators_data # <<>>
    /\ now = KstInstant(3, 7, 30)
    /\ pc = "format"
    /\ briefing_message = <<>>
    /\ Detached
    /\ PureIdle

SpecFormat == InitFormat /\ [][FormatBriefing]_vars

----------------------------------------------------------------------------
(* Claims *)

IsGet(r) == r.method = "GET"

IsPost(r) == r.method = "POST"

Gets == SelectSeq(requests, IsGet)

Posts == SelectSeq(requests, IsPost)

InLoop == pc \in {"run_pending", "sleep"} \/ caller = "job"

\* The first weekday 07:30 UTC+9 minute after instant t.
NextBriefingMinute(t) ==
    LET civil == t + 540
        today == civil \div 1440
        day == CHOOSE d \in today..(today + 3) :
                   /\ d % 7 \in 0..4
                   /\ d * 1440 + 450 > civil
                   /\ \A e \in today..(d - 1) : ~(e % 7 \in 0..4 /\ e * 1440 + 450 > civil)
    IN  day * 1440 + 450 - 540

\* C1: in no UTC+9 calendar minute does the gate let more than one run of
\* the briefing pipeline through.
C1_AtMostOncePerMinute == fireCount <= 1

\* C2: with all three secrets present, when the scheduler loop is entered
\* the startup notification has been sent and the immediate briefing cycle
\* has run (fetched), whatever the weekday and the time of day.
C2_UnconditionalTestCycle ==
    ((\A name \in SecretNames : env[name]) /\ InLoop) => (startup = "sent" /\ test = "ran")

\* C3: the gate answers true exactly at 07:30 UTC+9 of a Monday to Friday,
\* and false at every instant of a Saturday or Sunday.
C3_ClockGate ==
    pc = "gate_out" =>
        /\ should = (\E week \in 0..((MaxInstant + 540) \div 10080), d \in 0..4 :
                        now + 540 = week * 10080 + d * 1440 + 7 * 60 + 30)
        /\ (((now + 540) \div 1440) % 7 \in {5, 6} => should = FALSE)

C3_Witness ==
    /\ pc = "gate_out"
    /\ should
    /\ now = KstInstant(8, 7, 30)

\* C4: once all five fetches of a cycle have failed, the mapping is empty
\* and the call is over: nothing is formatted and no POST is issued.
C4_EmptyFetchAborts ==
    (Len(Gets) = Len(Series) /\ \A j \in 1..Len(Gets) : Gets[j].result = "failed") =>
        /\ indicators_data = <<>>
        /\ pc = "return"
        /\ outcome = "no_data"
        /\ briefing_message = <<>>
        /\ Posts = <<>>

C4_Witness ==
    /\ pc = "return"
    /\ Len(Gets) = Len(Series)
    /\ \A j \in 1..Len(Gets) : Gets[j].result = "failed"
    /\ caller = "job"

\* The series whose fetch failed in the current cycle.
FailedSeries == {Gets[j].series : j \in {i \in 1..Len(Gets) : Gets[i].result = "failed"}}

\* Every other series answered with at least one observation.
OthersHaveData == \A j \in 1..Len(Gets) : Gets[j].result = "ok" => Gets[j].count >= 1

RenderedNames(message) ==
    {message[j].name : j \in {i \in 1..Len(message) : message[i].kind \in {"critical", "important"}}}

\* C5: the series are fetched once each in definition order whatever
\* fails; the mapping holds exactly the series that did not fail; and if
\* any is left the cycle renders and delivers from those alone.
C5_FailureIsolation ==
    /\ Len(Gets) <= Len(Series)
    /\ \A j \in 1..Len(Gets) : Gets[j].series = Series[j]
    /\ pc \in {"format", "deliver"} => Len(Gets) = Len(Series)
    /\ OthersHaveData =>
          /\ [j \in 1..Len(indicators_data) |-> indicators_data[j].series_id]
               = SelectSeq(SubSeq(Series, 1, Len(Gets)), LAMBDA s : s \notin FailedSeries)
          /\ (pc = "return" /\ Len(Gets) = Len(Series) /\ Cardinality(FailedSeries) < Len(Series)) =>
                /\ Len(Posts) = 1
                /\ outcome \in {"sent", "send_failed"}
                /\ RenderedNames(Posts[1].text)
                     \subseteq {ECONOMIC_INDICATORS[Series[j]].name :
                                   j \in {i \in 1..Len(Series) : Series[i] \notin FailedSeries}}

C5_Witness ==
    /\ pc = "return"
    /\ outcome = "sent"
    /\ OthersHaveData
    /\ FailedSeries = {"CPIAUCSL", "GDPC1"}
    /\ Len(indicators_data) = 3
    /\ Cardinality(RenderedNames(Posts[1].text)) = 3

\* C6: a failed delivery is one POST and is absorbed, the thread is back
\* in the loop, and in the next weekday 07:30 UTC+9 minute a cycle fires.
C6_FiresAgainAfterFailure ==
    /\ outcome = "send_failed" => (pc = "return" /\ Len(Posts) = 1)
    /\ (failedAt >= 0 /\ now > NextBriefingMinute(failedAt)) =>
          lastFire >= NextBriefingMinute(failedAt)

\* C7: with a secret missing, neither the startup notification nor the
\* test cycle happens, no request is issued before the loop, and the
\* thread goes straight into the loop and stays in it.
C7_MissingConfiguration ==
    (\E name \in SecretNames : ~env[name]) =>
        /\ startup = "none"
        /\ test = "none"
        /\ caller # "test"
        /\ pc = "startup" => requests = <<>>
        /\ pc # "startup" => InLoop

C7_Witness ==
    /\ ~env["BOT_TOKEN"]
    /\ pc = "sleep"
    /\ startup = "none"
    /\ now > KstInstant(4, 7, 30)
    /\ lastFire = KstInstant(4, 7, 30)

\* What float() makes of the values drawn, in hundredths.
IsNumberText(s) ==
    s \in {<<"4", ".", "3">>, <<"4", ".", "1">>, <<"4", ".", "3", "0">>, <<"0">>,
           <<"-", "1", ".", "5">>, <<"1", "5", "9", "0", "0", "0">>}

ExpectedNumber(s) ==
    CASE s = <<"4", ".", "3">> -> 430
      [] s = <<"4", ".", "1">> -> 410
      [] s = <<"4", ".", "3", "0">> -> 430
      [] s = <<"0">> -> 0
      [] s = <<"-", "1", ".", "5">> -> 0 - 150
      [] s = <<"1", "5", "9", "0", "0", "0">> -> 15900000

\* C8: the change is undetermined when a side is absent, the missing-value
\* token or no number, and else the signed difference current - previous;
\* the four cases get four different markers.
C8_ChangeCalculator ==
    pc = "calc_out" =>
        LET undetermined == ~IsNumberText(current) \/ ~IsNumberText(previous)
            diff == IF undetermined THEN 0
                    ELSE ExpectedNumber(current) - ExpectedNumber(previous)
        IN  /\ undetermined => change = NoNumber
            /\ ~undetermined => change = Number(diff)
            /\ change_str.marker = "bar_chart" <=> undetermined
            /\ change_str.marker = "chart_up" <=> (~undetermined /\ diff > 0)
            /\ change_str.marker = "chart_down" <=> (~undetermined /\ diff < 0)
            /\ change_str.marker = "arrow_right" <=> (~undetermined /\ diff = 0)

C8_Witness ==
    /\ pc = "calc_out"
    /\ current = <<"4", ".", "3">>
    /\ previous = <<"4", ".", "1">>
    /\ change = Number(20)
    /\ change_str = [marker |-> "chart_up", text |-> <<"+", "0", ".", "2", "0">>]

\* What strptime and strftime make of the dates drawn.
ExpectedSuffix(d) ==
    IF d = GoodDate THEN <<"0", "8", "/", "0", "1">>
    ELSE IF d = ShortDate THEN <<"1", "1", "/", "0", "5">>
    ELSE <<>>

\* The lines of a message that render an indicator.
IndicatorLines(message) ==
    SelectSeq(message, LAMBDA l : l.kind \in {"critical", "important"})

LinesOf(message, e) ==
    SelectSeq(IndicatorLines(message), LAMBDA l : l.name = e.data.info.name)

\* C9 as stated: every snapshot with a present latest value, of either
\* tier, gets a line with its date as month/day, left out only when the
\* date does not parse.
C9_DateSuffixOnEveryLine ==
    pc = "deliver" =>
        \A j \in 1..Len(indicators_data) :
            LET e == indicators_data[j]
            IN  e.data.latest_value # MissingToken =>
                  /\ Len(LinesOf(briefing_message, e)) = 1
                  /\ LinesOf(briefing_message, e)[1].date = ExpectedSuffix(e.data.latest_date)

\* C9 as amended: every snapshot with a present latest value gets a line
\* with its value and unit; a critical-tier line carries the date as
\* month/day unless the date is absent or does not parse; an
\* important-tier line carries no date.
C9_DateSuffixOnCriticalLines ==
    pc = "deliver" =>
        \A j \in 1..Len(indicators_data) :
            LET e == indicators_data[j]
                lines == LinesOf(briefing_message, e)
            IN  e.data.latest_value # MissingToken =>
                  /\ Len(lines) = 1
                  /\ lines[1].value = e.data.latest_value
                  /\ lines[1].unit = e.data.info.unit
                  /\ lines[1].change.marker \in {"bar_chart", "chart_up", "chart_down", "arrow_right"}
                  /\ e.data.info.importance = "critical" =>
                        lines[1].date = ExpectedSuffix(e.data.latest_date)
                  /\ e.data.info.importance = "important" => lines[1].date = <<>>

C9_Witness ==
    /\ pc = "deliver"
    /\ Len(indicators_data) = Len(Series)
    /\ indicators_data[1].data.latest_date = GoodDate
    /\ indicators_data[1].data.latest_value = <<"4", ".", "3">>
    /\ LinesOf(briefing_message, indicators_data[1])[1].date = <<"0", "8", "/", "0", "1">>
    /\ LinesOf(briefing_message, indicators_data[1])[1].change.marker = "chart_up"
    /\ indicators_data[2].data.latest_date = NotADate
    /\ LinesOf(briefing_message, indicators_data[2])[1].date = <<>>
    /\ indicators_data[4].data.latest_date = GoodDate
    /\ indicators_data[4].data.latest_value # MissingToken
    /\ LinesOf(briefing_message, indicators_data[4])[1].date = <<>>

\* Position of a display name in the static definition list.
DefinitionIndex(name) ==
    CHOOSE j \in 1..Len(Series) : ECONOMIC_INDICATORS[Series[j]].name = name

\* C10: the indicator lines are exactly the snapshots whose latest value
\* is not the missing-value token, critical tier before important tier,
\* each tier in the order of the definition list.
C10_LineSequence ==
    pc = "deliver" =>
        LET lines == IndicatorLines(briefing_message)
            present == {j \in 1..Len(indicators_data) :
                           indicators_data[j].data.latest_value # MissingToken}
        IN  /\ Len(lines) = Cardinality(present)
            /\ {lines[i].name : i \in 1..Len(lines)}
                 = {indicators_data[j].data.info.name : j \in present}
            /\ \A i \in 1..Len(lines) : \A j \in (i + 1)..Len(lines) :
                  /\ ~(lines[i].kind = "important" /\ lines[j].kind = "critical")
                  /\ DefinitionIndex(lines[i].name) < DefinitionIndex(lines[j].name)
            /\ \A i \in 1..Len(lines) :
                  lines[i].kind = ECONOMIC_INDICATORS[Series[DefinitionIndex(lines[i].name)]].importance

C10_Witness ==
    /\ pc = "deliver"
    /\ Len(indicators_data) = Len(Series)
    /\ indicators_data[2].data.latest_value = MissingToken
    /\ indicators_data[4].data.latest_value = MissingToken
    /\ Len(IndicatorLines(briefing_message)) = 3
    /\ [i \in 1..3 |-> IndicatorLines(briefing_message)[i].name]
         = <<"unemployment rate", "nonfarm payrolls", "retail sales">>

====
